---- MODULE Spec2Model ----
(***************************************************************************)
(* Model of the WhisperX batch processor of                                *)
(* src/vast_ai_compute_setup/v7process_audio.py: main, process_all_files,   *)
(* process_audio_file, load_metadata and save_results with its three       *)
(* writers.  Strings that the code splits, slices or joins (stems, file    *)
(* names, segment texts) are tuples of one-character strings; speaker      *)
(* labels and names, which the code only compares and looks up, are        *)
(* strings.                                                                *)
(***************************************************************************)
EXTENDS Integers, Sequences, FiniteSets, TLC

(***************************************************************************)
(* Bounds of the model.                                                    *)
(***************************************************************************)
\* longest enumeration of *.wav files in one batch
MaxFiles == 2
\* the speaker_count of the sidecar that lists no attendees
MaxSpeakerCount == 3

(***************************************************************************)
(* Python values.                                                          *)
(***************************************************************************)
\* Python's None
None == [py |-> "None"]

\* truth value of an Optional[Dict]: None and {} are false
truthy(d) == d # None /\ DOMAIN d # {}

\* key in dict
has_key(d, k) == k \in DOMAIN d

\* dict.get(key, default)
dict_get(d, k, default) == IF k \in DOMAIN d THEN d[k] ELSE default

Min(a, b) == IF a <= b THEN a ELSE b

\* s[a:b] for 0 <= a, 0 <= b: out-of-range indices are clamped
slice(s, a, b) == SubSeq(s, a + 1, Min(b, Len(s)))

\* s[a:] for 0 <= a
slice_from(s, a) == SubSeq(s, a + 1, Len(s))

\* positions of sep in s
sep_positions(s, sep) == {k \in 1..Len(s) : s[k] = sep}

\* str.split(sep) for a one-character separator: "a__b" gives a, "", b
RECURSIVE split(_, _)
split(s, sep) ==
    IF sep_positions(s, sep) = {} THEN <<s>>
    ELSE LET k == CHOOSE p \in sep_positions(s, sep) :
                     \A q \in sep_positions(s, sep) : p <= q
         IN <<SubSeq(s, 1, k - 1)>> \o split(SubSeq(s, k + 1, Len(s)), sep)

\* sep.join(parts); the empty list gives the empty string
RECURSIVE join(_, _)
join(parts, sep) ==
    IF Len(parts) = 0 THEN <<>>
    ELSE IF Len(parts) = 1 THEN parts[1]
    ELSE parts[1] \o <<sep>> \o join(Tail(parts), sep)

\* str.strip(): leading and trailing whitespace removed
is_space(c) == c \in {" ", "\t", "\n"}

RECURSIVE lstrip(_)
lstrip(s) == IF Len(s) > 0 /\ is_space(s[1]) THEN lstrip(Tail(s)) ELSE s

RECURSIVE rstrip(_)
rstrip(s) ==
    IF Len(s) > 0 /\ is_space(s[Len(s)]) THEN rstrip(SubSeq(s, 1, Len(s) - 1))
    ELSE s

strip(s) == rstrip(lstrip(s))

(***************************************************************************)
(* Paths.  A path is the tuple of its components below the workspace       *)
(* directory /workspace/audio; a component is a tuple of characters.       *)
(***************************************************************************)
\* self.workspace_dir
workspace_dir == <<>>

\* self.output_base_dir = workspace_dir / "audio-only"
output_base_dir == workspace_dir \o << <<"a","u","d","i","o","-","o","n","l","y">> >>

\* the suffixes of the file names the code builds from a stem
metadata_suffix == <<"_","m","e","t","a","d","a","t","a",".","j","s","o","n">>
json_suffix == <<".","j","s","o","n">>
conversation_suffix == <<"_","c","o","n","v","e","r","s","a","t","i","o","n",".","j","s","o","n">>
txt_suffix == <<".","t","x","t">>

\* the stems of the recordings a batch may enumerate: one of five
\* underscore-delimited tokens, and two of six tokens that differ in the
\* time token only
StemWeekly ==
    <<"A","O","_","R","E","C","_","W","e","e","k","l","y","S","y","n","c",
      "_","2","0","2","4","0","1","1","5","_","0","9","3","0","0","0">>
StemEvent ==
    <<"a","u","d","i","o","_","o","n","l","y","_","T","e","a","m","_","S",
      "y","n","c","_","2","0","2","4","0","1","1","5","_","0","9","3","0",
      "0","0">>
StemEventLater ==
    <<"a","u","d","i","o","_","o","n","l","y","_","T","e","a","m","_","S",
      "y","n","c","_","2","0","2","4","0","1","1","5","_","1","4","0","0",
      "0","0">>
Stems == {StemWeekly, StemEvent, StemEventLater}

\* dir_name with the test 'len(filename_parts) >= 5': a stem of five tokens
\* is taken apart as well
dir_name_from_five_tokens(stem) ==
    LET filename_parts == split(stem, "_")
    IN IF Len(filename_parts) >= 5
       THEN LET event_parts == SubSeq(filename_parts, 3, Len(filename_parts) - 2)
                event_name == join(event_parts, "_")
                date_str == filename_parts[Len(filename_parts) - 1]
                formatted_date == slice(date_str, 0, 4) \o <<"-">> \o
                                  slice(date_str, 4, 6) \o <<"-">> \o
                                  slice_from(date_str, 6)
            IN event_name \o <<"_">> \o formatted_date
       ELSE stem

\* dir_name with the date token as it stands in the stem, not rewritten
dir_name_date_as_in_stem(stem) ==
    LET filename_parts == split(stem, "_")
    IN IF Len(filename_parts) >= 6
       THEN join(SubSeq(filename_parts, 3, Len(filename_parts) - 1), "_")
       ELSE stem

\* dir_name without the date: the event name alone names the directory
dir_name_without_date(stem) ==
    LET filename_parts == split(stem, "_")
    IN IF Len(filename_parts) >= 6
       THEN join(SubSeq(filename_parts, 3, Len(filename_parts) - 2), "_")
       ELSE stem

\* process_all_files: the directory name computed from the stem
dir_name(stem) ==
    LET filename_parts == split(stem, "_")
    IN IF Len(filename_parts) >= 6
       THEN LET event_parts == SubSeq(filename_parts, 3, Len(filename_parts) - 2)
                event_name == join(event_parts, "_")
                date_str == filename_parts[Len(filename_parts) - 1]
                formatted_date == slice(date_str, 0, 4) \o <<"-">> \o
                                  slice(date_str, 4, 6) \o <<"-">> \o
                                  slice_from(date_str, 6)
            IN event_name \o <<"_">> \o formatted_date
       ELSE stem

\* process_all_files: output_dir = self.output_base_dir / dir_name
output_dir_of(stem) == output_base_dir \o <<dir_name(stem)>>

\* text_path with one fixed file name for every recording, "transcript.txt"
text_path_fixed_name(stem, output_dir) ==
    output_dir \o << <<"t","r","a","n","s","c","r","i","p","t">> \o txt_suffix >>

\* the three artifact paths save_results writes for a stem under output_dir
transcript_path(stem, output_dir) == output_dir \o <<stem \o json_suffix>>
conversation_path(stem, output_dir) == output_dir \o <<stem \o conversation_suffix>>
text_path(stem, output_dir) == output_dir \o <<stem \o txt_suffix>>

(***************************************************************************)
(* Metadata sidecars.  A sidecar file is unreadable or unparseable         *)
(* ("corrupt": open or json.load raises) or holds a JSON object.           *)
(***************************************************************************)
Attendees == <<[name |-> "Alice", id |-> 1], [name |-> "Bob", id |-> 2]>>

\* an attendees list whose second entry has no name
AttendeesUnnamed == <<[name |-> "Alice", id |-> 1], [id |-> 2]>>

\* the JSON objects a sidecar may hold: a speaker count alone, a speaker
\* count with the attendees, one with a malformed attendees entry, and an
\* object that lacks speaker_count
SidecarDicts ==
    { [speaker_count |-> MaxSpeakerCount],
      [speaker_count |-> Len(Attendees), attendees |-> Attendees],
      [speaker_count |-> Len(AttendeesUnnamed), attendees |-> AttendeesUnnamed],
      [title |-> "untitled", attendees |-> Attendees] }

SidecarContents ==
    {[kind |-> "corrupt"]} \cup {[kind |-> "json", value |-> d] : d \in SidecarDicts}

\* load_metadata: the candidate locations of a recording, in the order consulted
metadata_locations(wav_parent, stem) ==
    << [path |-> wav_parent \o <<stem \o metadata_suffix>>, desc |-> "parent directory"],
       [path |-> workspace_dir \o <<stem \o metadata_suffix>>, desc |-> "workspace root"],
       [path |-> output_base_dir \o <<stem, stem \o metadata_suffix>>,
        desc |-> "output directory"] >>

\* the sidecar files that may exist for a recording: any content at any
\* of the places a sidecar of the recording is looked for
SidecarFiles(wav_parent, stem) ==
    LET places == {metadata_locations(wav_parent, stem)[k].path : k \in 1..3}
    IN UNION {[P -> SidecarContents] : P \in SUBSET places}

\* load_metadata, the loop over the locations from the k-th on; consulted is
\* the list of locations logged so far.  An exception raised by open or
\* json.load leaves the loop and is caught by the except of the function.
RECURSIVE load_metadata_from(_, _, _, _)
load_metadata_from(locations, k, files, consulted) ==
    IF k > Len(locations)
    THEN [metadata |-> None, location |-> <<>>, consulted |-> consulted, raised |-> FALSE]
    ELSE LET location == locations[k].path
             seen == Append(consulted, location)
         IN IF location \notin DOMAIN files
            THEN load_metadata_from(locations, k + 1, files, seen)
            ELSE IF files[location].kind = "corrupt"
            THEN [metadata |-> None, location |-> <<>>, consulted |-> seen, raised |-> TRUE]
            ELSE IF has_key(files[location].value, "speaker_count")
            THEN [metadata |-> files[location].value, location |-> location,
                  consulted |-> seen, raised |-> FALSE]
            ELSE load_metadata_from(locations, k + 1, files, seen)

\* load_metadata(wav_file) on the file system files
load_metadata(wav_parent, stem, files) ==
    load_metadata_from(metadata_locations(wav_parent, stem), 1, files, <<>>)

(***************************************************************************)
(* The model gateway (whisperx): what its calls return.                    *)
(***************************************************************************)
\* model.transcribe(audio)["segments"]: the segments of a recording, without
\* speakers; the texts carry the whitespace the recognizer leaves around them
transcribed_segments(stem) ==
    IF stem = StemWeekly
    THEN << [start |-> 0, end |-> 1, text |-> <<" ","H","i">>],
            [start |-> 1, end |-> 2, text |-> <<" ","y","o"," ">>],
            [start |-> 2, end |-> 3, text |-> <<"B","y","e">>] >>
    ELSE << [start |-> 0, end |-> 1, text |-> <<" ","O","k">>],
            [start |-> 1, end |-> 2, text |-> <<" ","N","o">>] >>

\* the second value of whisperx.load_align_model: the alignment model's own
\* description, a dict that names the language, the dictionary and the type
align_metadata == [language |-> "en", dictionary |-> "chars", type |-> "torchaudio"]

\* a segment to which assign_word_speakers gave no speaker has no such key
NoSpeaker == "<no speaker key>"

\* the speakers assign_word_speakers may give to the segments of a
\* recording, by position
Labelings(stem) ==
    IF stem = StemWeekly
    THEN { <<"SPEAKER_1", "SPEAKER_1", "SPEAKER_2">>,
           <<"SPEAKER_2", NoSpeaker, "SPEAKER_3">> }
    ELSE { <<"SPEAKER_2", "SPEAKER_1">> }

\* whisperx.assign_word_speakers(diarize_segments, result)["segments"]
assign_word_speakers(segments, labels) ==
    [k \in 1..Len(segments) |->
        IF labels[k] = NoSpeaker THEN segments[k]
        ELSE [start |-> segments[k].start, end |-> segments[k].end,
              text |-> segments[k].text, speaker |-> labels[k]]]

(***************************************************************************)
(* save_results and its writers.                                           *)
(***************************************************************************)
\* save_results: speaker_mapping[f'SPEAKER_{i}'] = attendee['name'], i from 1
speaker_key(i) == "SPEAKER_" \o ToString(i)

build_speaker_mapping(md) ==
    IF truthy(md) /\ has_key(md, "attendees")
    THEN LET att == md["attendees"]
         IN [key \in {speaker_key(i) : i \in 1..Len(att)} |->
                att[CHOOSE i \in 1..Len(att) : speaker_key(i) = key].name]
    ELSE << >>

\* save_results raises KeyError when an attendee has no 'name'
mapping_raises(md) ==
    /\ truthy(md)
    /\ has_key(md, "attendees")
    /\ \E i \in 1..Len(md["attendees"]) : ~has_key(md["attendees"][i], "name")

\* save_transcript: the segments after the loop that rewrites 'speaker' in place
map_segments(segments, speaker_mapping) ==
    [k \in 1..Len(segments) |->
        IF has_key(segments[k], "speaker")
        THEN [segments[k] EXCEPT
                 !["speaker"] = dict_get(speaker_mapping, segments[k].speaker,
                                         segments[k].speaker)]
        ELSE segments[k]]

\* segment_speaker with segment['speaker'] defaulting to the empty string
\* instead of 'Unknown'
segment_speaker_default_empty(segment, speaker_mapping) ==
    LET speaker == dict_get(segment, "speaker", "")
    IN dict_get(speaker_mapping, speaker, speaker)

\* save_conversation / save_text_format: the speaker of one segment
segment_speaker(segment, speaker_mapping) ==
    LET speaker == dict_get(segment, "speaker", "Unknown")
    IN dict_get(speaker_mapping, speaker, speaker)

\* save_conversation without the comparison with current_speaker: every
\* segment from the k-th on becomes a turn of its own
conversation_loop_turn_per_segment(segments, k, speaker_mapping, conversation, current_speaker, current_text) ==
    conversation \o
        [j \in 1..(Len(segments) - k + 1) |->
            [speaker |-> segment_speaker(segments[k + j - 1], speaker_mapping),
             text |-> strip(segments[k + j - 1].text)]]

\* save_conversation with '=' for '+=' in the else branch: a segment of the
\* speaker of the open turn replaces the buffered text
RECURSIVE conversation_loop_buffer_replaced(_, _, _, _, _, _)
conversation_loop_buffer_replaced(segments, k, speaker_mapping, conversation, current_speaker, current_text) ==
    IF k > Len(segments)
    THEN IF current_speaker # <<>> /\ current_text # <<>>
         THEN Append(conversation,
                     [speaker |-> current_speaker[1], text |-> strip(current_text)])
         ELSE conversation
    ELSE LET speaker == segment_speaker(segments[k], speaker_mapping)
             text == strip(segments[k].text)
         IN conversation_loop_buffer_replaced(segments, k + 1, speaker_mapping,
                IF <<speaker>> # current_speaker /\ current_speaker # <<>>
                THEN Append(conversation,
                            [speaker |-> current_speaker[1],
                             text |-> strip(current_text)])
                ELSE conversation,
                <<speaker>>, text \o <<" ">>)

\* save_conversation: the loop over the segments from the k-th on, with the
\* turns appended so far and the buffered speaker and text.  current_speaker
\* is <<>> for None and <<name>> for a name.
RECURSIVE conversation_loop(_, _, _, _, _, _)
conversation_loop(segments, k, speaker_mapping, conversation, current_speaker, current_text) ==
    IF k > Len(segments)
    THEN IF current_speaker # <<>> /\ current_text # <<>>
         THEN Append(conversation,
                     [speaker |-> current_speaker[1], text |-> strip(current_text)])
         ELSE conversation
    ELSE LET speaker == segment_speaker(segments[k], speaker_mapping)
             text == strip(segments[k].text)
         IN IF <<speaker>> # current_speaker
            THEN conversation_loop(segments, k + 1, speaker_mapping,
                    IF current_speaker # <<>>
                    THEN Append(conversation,
                                [speaker |-> current_speaker[1],
                                 text |-> strip(current_text)])
                    ELSE conversation,
                    <<speaker>>, text \o <<" ">>)
            ELSE conversation_loop(segments, k + 1, speaker_mapping, conversation,
                                   current_speaker, current_text \o text \o <<" ">>)

\* save_conversation: the list dumped to <stem>_conversation.json
conversation_of(segments, speaker_mapping) ==
    conversation_loop(segments, 1, speaker_mapping, <<>>, <<>>, <<>>)

\* save_text_format writing the turns of save_conversation instead of the
\* segments: one line per turn
text_lines_of_turns(segments, speaker_mapping) ==
    LET conversation == conversation_of(segments, speaker_mapping)
    IN [n \in 1..Len(conversation) |->
            <<conversation[n].speaker>> \o <<":", " ">>
                \o conversation[n].text \o <<"\n">>]

\* save_text_format: the lines written to <stem>.txt, one per segment
text_lines(segments, speaker_mapping) ==
    [k \in 1..Len(segments) |->
        <<segment_speaker(segments[k], speaker_mapping)>> \o <<":", " ">>
            \o strip(segments[k].text) \o <<"\n">>]

(***************************************************************************)
(* State.                                                                  *)
(***************************************************************************)
VARIABLES
    wav_files,          \* process_all_files: the stems of the enumerated *.wav files
    i,                  \* process_all_files: index of the current file, 0 before the loop
    pc,                 \* the statement control is at
    successful,         \* process_all_files: successful
    failed,             \* process_all_files: failed
    files,              \* the metadata sidecars load_metadata finds on disk
    metadata,           \* process_audio_file: metadata
    metadata_location,  \* process_audio_file: metadata_location, <<>> for ""
    consulted,          \* load_metadata: the locations logged as searched
    resolved,           \* what load_metadata returned for the current recording
    speaker_count,      \* process_audio_file: speaker_count, 0 while unset
    resident,           \* the heavy models process_audio_file holds references to
    result,             \* process_audio_file: result["segments"], <<>> while unset
    stages,             \* the stages completed for the current recording
    diarize_args,       \* the arguments of the diarize_model call, <<>> before it
    disk,               \* the output files written in this run: path -> content
    speaker_mapping,    \* save_results: speaker_mapping
    attempted,          \* the stems for which the loop body was entered, in order
    outcomes,           \* per attempted recording: what became of it
    summary             \* the printed summary, <<>> while not printed

vars == <<wav_files, i, pc, successful, failed, files, metadata, metadata_location,
          consulted, speaker_count, resident, result, stages, diarize_args, disk,
          speaker_mapping, resolved, attempted, outcomes, summary>>

\* self.workspace_dir.glob("*.wav"): distinct files of the workspace
\* directory, at most n of them, in any order
RECURSIVE Enumerations(_)
Enumerations(n) ==
    IF n = 0 THEN {<<>>}
    ELSE LET shorter == Enumerations(n - 1)
         IN shorter \cup
            {Append(q[1], q[2]) :
                q \in {r \in shorter \X Stems :
                          /\ Len(r[1]) = n - 1
                          /\ \A k \in 1..Len(r[1]) : r[1][k] # r[2]}}

\* the recording the loop is at; its path is workspace_dir / (stem + ".wav")
wav_path == wav_files[i]

\* wav_path.parent: glob yields children of workspace_dir
wav_parent == workspace_dir

\* process_all_files: output_dir of the current recording
output_dir == output_dir_of(wav_path)

\* the stage names of the orchestrator, in pipeline order
StageOrder == <<"Load", "Transcribe", "Align", "Diarize", "Label", "Materialize">>

Init ==
    /\ wav_files \in Enumerations(MaxFiles)
    /\ i = 0
    /\ pc = "glob"
    /\ successful = 0
    /\ failed = 0
    /\ files = <<>>
    /\ metadata = None
    /\ metadata_location = <<>>
    /\ consulted = <<>>
    /\ resolved = None
    /\ speaker_count = 0
    /\ resident = {}
    /\ result = <<>>
    /\ stages = <<>>
    /\ diarize_args = <<>>
    /\ disk = <<>>
    /\ speaker_mapping = <<>>
    /\ attempted = <<>>
    /\ outcomes = <<>>
    /\ summary = <<>>

\* locals_dropped with the models kept alive beyond the call, as a cache on
\* the processor object would keep them
locals_dropped_models_kept ==
    /\ files' = <<>>
    /\ metadata' = None
    /\ metadata_location' = <<>>
    /\ consulted' = <<>>
    /\ resolved' = None
    /\ speaker_count' = 0
    /\ resident' = resident
    /\ result' = <<>>
    /\ stages' = <<>>
    /\ diarize_args' = <<>>
    /\ speaker_mapping' = <<>>

\* the locals of process_audio_file and save_results go out of scope: the
\* references to the models are dropped with them
locals_dropped ==
    /\ files' = <<>>
    /\ metadata' = None
    /\ metadata_location' = <<>>
    /\ consulted' = <<>>
    /\ resolved' = None
    /\ speaker_count' = 0
    /\ resident' = {}
    /\ result' = <<>>
    /\ stages' = <<>>
    /\ diarize_args' = <<>>
    /\ speaker_mapping' = <<>>

\* return_False without the count of the failure: the else branch that
\* increments failed is missing
return_False_uncounted(error, disk_after) ==
    /\ failed' = failed
    /\ outcomes' = Append(outcomes, [stem |-> wav_path, succeeded |-> FALSE, error |-> error])
    /\ disk' = disk_after
    /\ locals_dropped
    /\ pc' = "for"
    /\ UNCHANGED <<wav_files, i, successful, attempted, summary>>

\* return_False with the recording tried again: after a failure control goes
\* back to the same recording instead of on to the next
return_False_retried(error, disk_after) ==
    /\ disk' = disk_after
    /\ locals_dropped
    /\ pc' = "mkdir"
    /\ UNCHANGED <<wav_files, i, successful, failed, attempted, outcomes, summary>>

\* process_audio_file: except Exception -> return False, then failed += 1 in
\* process_all_files; disk_after is the disk the failed statement left
return_False(error, disk_after) ==
    /\ failed' = failed + 1
    /\ outcomes' = Append(outcomes, [stem |-> wav_path, succeeded |-> FALSE, error |-> error])
    /\ disk' = disk_after
    /\ locals_dropped
    /\ pc' = "for"
    /\ UNCHANGED <<wav_files, i, successful, attempted, summary>>

\* except_continue without the try around the loop body: the exception
\* leaves process_all_files and main's handler ends the run
except_propagates(error) ==
    /\ failed' = failed
    /\ outcomes' = Append(outcomes, [stem |-> wav_path, succeeded |-> FALSE, error |-> error])
    /\ locals_dropped
    /\ pc' = "exit"
    /\ UNCHANGED <<wav_files, i, successful, attempted, summary, disk>>

\* process_all_files: except Exception -> failed += 1; continue
except_continue(error) ==
    /\ failed' = failed + 1
    /\ outcomes' = Append(outcomes, [stem |-> wav_path, succeeded |-> FALSE, error |-> error])
    /\ locals_dropped
    /\ pc' = "for"
    /\ UNCHANGED <<wav_files, i, successful, attempted, summary, disk>>

\* a statement of process_audio_file's try block completed: control moves on
goto(next) ==
    /\ pc' = next
    /\ UNCHANGED <<wav_files, i, successful, failed, attempted, outcomes, summary>>

(***************************************************************************)
(* process_all_files.                                                      *)
(***************************************************************************)
\* Glob without 'if not wav_files: ... return': an empty enumeration goes
\* on to the loop and the summary
Glob_without_empty_test ==
    /\ pc = "glob"
    /\ pc' = "for"
    /\ UNCHANGED <<wav_files, i, successful, failed, files, metadata, metadata_location,
                   consulted, speaker_count, resident, result, stages, diarize_args,
                   disk, speaker_mapping, resolved, attempted, outcomes, summary>>

\* wav_files = list(glob("*.wav")); if not wav_files: print, return
Glob ==
    /\ pc = "glob"
    /\ IF wav_files = <<>>
       THEN /\ summary' = [kind |-> "no wav files"]
            /\ pc' = "exit"
       ELSE /\ summary' = summary
            /\ pc' = "for"
    /\ UNCHANGED <<wav_files, i, successful, failed, files, metadata, metadata_location,
                   consulted, speaker_count, resident, result, stages, diarize_args,
                   disk, speaker_mapping, resolved, attempted, outcomes>>

\* for i, wav_path in enumerate(wav_files, 1): the next file, or the end of
\* the loop; the sidecars on disk for the file are what they are
ForNext ==
    /\ pc = "for"
    /\ i < Len(wav_files)
    /\ i' = i + 1
    /\ attempted' = Append(attempted, wav_files[i + 1])
    /\ files' \in SidecarFiles(wav_parent, wav_files[i + 1])
    /\ pc' = "mkdir"
    /\ UNCHANGED <<wav_files, successful, failed, metadata, metadata_location, consulted,
                   speaker_count, resident, result, stages, diarize_args, disk,
                   speaker_mapping, resolved, outcomes, summary>>

\* the summary printed after the loop
Summary ==
    /\ pc = "for"
    /\ i = Len(wav_files)
    /\ summary' = [kind |-> "summary", successful |-> successful, failed |-> failed,
                   total |-> Len(wav_files)]
    /\ pc' = "exit"
    /\ UNCHANGED <<wav_files, i, successful, failed, files, metadata, metadata_location,
                   consulted, speaker_count, resident, result, stages, diarize_args,
                   disk, speaker_mapping, resolved, attempted, outcomes>>

\* dir_name, output_dir, output_dir.mkdir(parents=True, exist_ok=True)
Mkdir ==
    /\ pc = "mkdir"
    /\ \E ok \in BOOLEAN :
        IF ok
        THEN /\ goto("load_metadata")
             /\ UNCHANGED <<files, metadata, metadata_location, consulted, speaker_count,
                            resident, result, stages, diarize_args, disk, speaker_mapping, resolved>>
        ELSE except_continue("mkdir")

(***************************************************************************)
(* process_audio_file.                                                     *)
(***************************************************************************)
\* speaker_count = 2  # Default fallback
DefaultSpeakerCount == 2

\* a stage completed
stage_done(name) == stages' = Append(stages, name)

\* metadata, metadata_location = self.load_metadata(audio_path)
LoadMetadata ==
    /\ pc = "load_metadata"
    /\ LET r == load_metadata(wav_parent, wav_path, files)
       IN /\ metadata' = r.metadata
          /\ metadata_location' = r.location
          /\ consulted' = r.consulted
          /\ resolved' = r.metadata
    /\ goto("show_metadata")
    /\ UNCHANGED <<files, speaker_count, resident, result, stages, diarize_args, disk,
                   speaker_mapping>>

\* ShowMetadata with a fallback of one speaker instead of two
ShowMetadata_fallback_one ==
    /\ pc = "show_metadata"
    /\ IF truthy(metadata) /\ has_key(metadata, "speaker_count")
       THEN IF mapping_raises(metadata)
            THEN except_continue("metadata")
            ELSE /\ speaker_count' = metadata["speaker_count"]
                 /\ goto("load_audio")
                 /\ files' = <<>>
                 /\ consulted' = <<>>
                 /\ UNCHANGED <<metadata, metadata_location, resident, result, stages,
                                diarize_args, disk, speaker_mapping, resolved>>
       ELSE /\ speaker_count' = DefaultSpeakerCount - 1
            /\ goto("load_audio")
            /\ files' = <<>>
            /\ consulted' = <<>>
            /\ UNCHANGED <<metadata, metadata_location, resident, result, stages,
                           diarize_args, disk, speaker_mapping, resolved>>

\* the speaker count of the recording and the attendees printed; a missing
\* attendee['name'] raises outside the try block of process_audio_file.  The
\* sidecars are not read again: what load_metadata found is forgotten here.
ShowMetadata ==
    /\ pc = "show_metadata"
    /\ IF truthy(metadata) /\ has_key(metadata, "speaker_count")
       THEN IF mapping_raises(metadata)
            THEN except_continue("metadata")
            ELSE /\ speaker_count' = metadata["speaker_count"]
                 /\ goto("load_audio")
                 /\ files' = <<>>
                 /\ consulted' = <<>>
                 /\ UNCHANGED <<metadata, metadata_location, resident, result, stages,
                                diarize_args, disk, speaker_mapping, resolved>>
       ELSE /\ speaker_count' = DefaultSpeakerCount
            /\ goto("load_audio")
            /\ files' = <<>>
            /\ consulted' = <<>>
            /\ UNCHANGED <<metadata, metadata_location, resident, result, stages,
                           diarize_args, disk, speaker_mapping, resolved>>

\* audio = whisperx.load_audio(str(audio_path))
LoadAudio ==
    /\ pc = "load_audio"
    /\ \E ok \in BOOLEAN :
        IF ok
        THEN /\ stage_done("Load")
             /\ goto("load_model")
             /\ UNCHANGED <<files, metadata, metadata_location, consulted, speaker_count,
                            resident, result, diarize_args, disk, speaker_mapping, resolved>>
        ELSE return_False("Load", disk)

\* model = whisperx.load_model("large-v2", ...)
LoadModel ==
    /\ pc = "load_model"
    /\ \E ok \in BOOLEAN :
        IF ok
        THEN /\ resident' = resident \cup {"asr"}
             /\ goto("transcribe")
             /\ UNCHANGED <<files, metadata, metadata_location, consulted, speaker_count,
                            result, stages, diarize_args, disk, speaker_mapping, resolved>>
        ELSE return_False("Transcribe", disk)

\* result = model.transcribe(audio, batch_size=16, language='en')
Transcribe ==
    /\ pc = "transcribe"
    /\ \E ok \in BOOLEAN :
        IF ok
        THEN /\ result' = transcribed_segments(wav_path)
             /\ stage_done("Transcribe")
             /\ goto("load_align_model")
             /\ UNCHANGED <<files, metadata, metadata_location, consulted, speaker_count,
                            resident, diarize_args, disk, speaker_mapping, resolved>>
        ELSE return_False("Transcribe", disk)

\* model_a, metadata = whisperx.load_align_model(language_code="en", ...)
LoadAlignModel ==
    /\ pc = "load_align_model"
    /\ \E ok \in BOOLEAN :
        IF ok
        THEN /\ resident' = resident \cup {"align"}
             /\ metadata' = align_metadata
             /\ goto("align")
             /\ UNCHANGED <<files, metadata_location, consulted, speaker_count, result,
                            stages, diarize_args, disk, speaker_mapping, resolved>>
        ELSE return_False("Align", disk)

\* Align with its failure swallowed: the pipeline goes on to diarization
\* although the alignment did not complete
Align_failure_ignored ==
    /\ pc = "align"
    /\ \E ok \in BOOLEAN :
        /\ IF ok THEN stage_done("Align") ELSE stages' = stages
        /\ goto("clear_gpu")
        /\ UNCHANGED <<files, metadata, metadata_location, consulted, speaker_count,
                       resident, result, diarize_args, disk, speaker_mapping, resolved>>

\* result = whisperx.align(result["segments"], model_a, metadata, audio, device)
Align ==
    /\ pc = "align"
    /\ \E ok \in BOOLEAN :
        IF ok
        THEN /\ stage_done("Align")
             /\ goto("clear_gpu")
             /\ UNCHANGED <<files, metadata, metadata_location, consulted, speaker_count,
                            resident, result, diarize_args, disk, speaker_mapping, resolved>>
        ELSE return_False("Align", disk)

\* del model; del model_a; gc.collect(); torch.cuda.empty_cache()
ClearGpu ==
    /\ pc = "clear_gpu"
    /\ resident' = resident \ {"asr", "align"}
    /\ goto("diarization_pipeline")
    /\ UNCHANGED <<files, metadata, metadata_location, consulted, speaker_count, result,
                   stages, diarize_args, disk, speaker_mapping, resolved>>

\* diarize_model = whisperx.DiarizationPipeline(use_auth_token=..., device=...)
DiarizationPipeline ==
    /\ pc = "diarization_pipeline"
    /\ \E ok \in BOOLEAN :
        IF ok
        THEN /\ resident' = resident \cup {"diarization"}
             /\ goto("diarize")
             /\ UNCHANGED <<files, metadata, metadata_location, consulted, speaker_count,
                            result, stages, diarize_args, disk, speaker_mapping, resolved>>
        ELSE return_False("Diarize", disk)

\* Diarize called with a range of speaker counts: the lower bound is
\* one speaker instead of the resolved count
Diarize_speaker_range ==
    /\ pc = "diarize"
    /\ \E ok \in BOOLEAN :
        IF ok
        THEN /\ diarize_args' = [min_speakers |-> 1,
                                 max_speakers |-> speaker_count]
             /\ stage_done("Diarize")
             /\ goto("assign_word_speakers")
             /\ UNCHANGED <<files, metadata, metadata_location, consulted, speaker_count,
                            resident, result, disk, speaker_mapping, resolved>>
        ELSE return_False("Diarize", disk)

\* diarize_segments = diarize_model(audio, min_speakers=..., max_speakers=...)
Diarize ==
    /\ pc = "diarize"
    /\ \E ok \in BOOLEAN :
        IF ok
        THEN /\ diarize_args' = [min_speakers |-> speaker_count,
                                 max_speakers |-> speaker_count]
             /\ stage_done("Diarize")
             /\ goto("assign_word_speakers")
             /\ UNCHANGED <<files, metadata, metadata_location, consulted, speaker_count,
                            resident, result, disk, speaker_mapping, resolved>>
        ELSE return_False("Diarize", disk)

\* result = whisperx.assign_word_speakers(diarize_segments, result)
AssignWordSpeakers ==
    /\ pc = "assign_word_speakers"
    /\ \E labels \in Labelings(wav_path) \cup {<<>>} :
        IF labels # <<>>
        THEN /\ result' = assign_word_speakers(result, labels)
             /\ stage_done("Label")
             /\ goto("save_results")
             /\ UNCHANGED <<files, metadata, metadata_location, consulted, speaker_count,
                            resident, diarize_args, disk, speaker_mapping, resolved>>
        ELSE return_False("Label", disk)

\* save_results: speaker_mapping built from the metadata it is passed
SaveResults ==
    /\ pc = "save_results"
    /\ IF mapping_raises(metadata)
       THEN return_False("Materialize", disk)
       ELSE /\ speaker_mapping' = build_speaker_mapping(metadata)
            /\ goto("save_transcript")
            /\ UNCHANGED <<files, metadata, metadata_location, consulted, speaker_count,
                           resident, result, stages, diarize_args, disk, resolved>>

\* what a write of content to path leaves on disk: open(path, 'w') fails and
\* the file is untouched, or json.dump / f.write fails after open truncated
\* the file, or the content is written
WriteOutcomes == {"written", "not opened", "truncated"}

\* disk_after_write with the file opened in mode 'a': what is written to an
\* existing file comes after what the file held
disk_after_write_appended(path, content, outcome) ==
    IF outcome = "not opened" THEN disk
    ELSE LET new == IF outcome # "written" THEN [kind |-> "truncated"]
                    ELSE IF path \in DOMAIN disk
                         THEN [kind |-> "appended", earlier |-> disk[path],
                               content |-> content]
                    ELSE content
         IN [q \in DOMAIN disk \cup {path} |-> IF q = path THEN new ELSE disk[q]]

disk_after_write(path, content, outcome) ==
    IF outcome = "not opened" THEN disk
    ELSE LET new == IF outcome = "written" THEN content ELSE [kind |-> "truncated"]
         IN [q \in DOMAIN disk \cup {path} |-> IF q = path THEN new ELSE disk[q]]

\* self.save_transcript(result, transcript_path, speaker_mapping)
SaveTranscript ==
    /\ pc = "save_transcript"
    /\ \E outcome \in WriteOutcomes :
        LET segments == map_segments(result, speaker_mapping)
            after == disk_after_write(transcript_path(wav_path, output_dir),
                                      [kind |-> "transcript", segments |-> segments],
                                      outcome)
        IN IF outcome = "written"
           THEN /\ result' = segments
                /\ disk' = after
                /\ goto("save_conversation")
                /\ UNCHANGED <<files, metadata, metadata_location, consulted,
                               speaker_count, resident, stages, diarize_args,
                               speaker_mapping, resolved>>
           ELSE return_False("Materialize", after)

\* self.save_conversation(result, conversation_path, speaker_mapping)
SaveConversation ==
    /\ pc = "save_conversation"
    /\ \E outcome \in WriteOutcomes :
        LET after == disk_after_write(conversation_path(wav_path, output_dir),
                                      [kind |-> "conversation",
                                       turns |-> conversation_of(result, speaker_mapping)],
                                      outcome)
        IN IF outcome = "written"
           THEN /\ disk' = after
                /\ goto("save_text_format")
                /\ UNCHANGED <<files, metadata, metadata_location, consulted,
                               speaker_count, resident, result, stages, diarize_args,
                               speaker_mapping, resolved>>
           ELSE return_False("Materialize", after)

\* self.save_text_format(result, text_path, speaker_mapping)
SaveTextFormat ==
    /\ pc = "save_text_format"
    /\ \E outcome \in WriteOutcomes :
        LET after == disk_after_write(text_path(wav_path, output_dir),
                                      [kind |-> "text",
                                       lines |-> text_lines(result, speaker_mapping)],
                                      outcome)
        IN IF outcome = "written"
           THEN /\ disk' = after
                /\ stage_done("Materialize")
                /\ goto("return_True")
                /\ UNCHANGED <<files, metadata, metadata_location, consulted,
                               speaker_count, resident, result, diarize_args,
                               speaker_mapping, resolved>>
           ELSE return_False("Materialize", after)

\* return True, then successful += 1 in process_all_files
ReturnTrue ==
    /\ pc = "return_True"
    /\ successful' = successful + 1
    /\ outcomes' = Append(outcomes, [stem |-> wav_path, succeeded |-> TRUE, error |-> "none"])
    /\ locals_dropped
    /\ pc' = "for"
    /\ UNCHANGED <<wav_files, i, failed, attempted, summary, disk>>

(***************************************************************************)
(* main.                                                                   *)
(***************************************************************************)
\* a KeyboardInterrupt raised while process_all_files runs is no Exception:
\* it passes both handlers and reaches main, which prints and returns
KeyboardInterrupt ==
    /\ pc \notin {"exit", "interrupted"}
    /\ pc' = "interrupted"
    /\ locals_dropped
    /\ UNCHANGED <<wav_files, i, successful, failed, attempted, outcomes, summary, disk>>

\* the status the process ends with: main returns on each of its paths
\* (normal end, KeyboardInterrupt, Exception) and nothing calls sys.exit, so
\* the interpreter ends with status 0
exit_status == 0

Next ==
    \/ Glob
    \/ ForNext
    \/ Summary
    \/ Mkdir
    \/ LoadMetadata
    \/ ShowMetadata
    \/ LoadAudio
    \/ LoadModel
    \/ Transcribe
    \/ LoadAlignModel
    \/ Align
    \/ ClearGpu
    \/ DiarizationPipeline
    \/ Diarize
    \/ AssignWordSpeakers
    \/ SaveResults
    \/ SaveTranscript
    \/ SaveConversation
    \/ SaveTextFormat
    \/ ReturnTrue
    \/ KeyboardInterrupt

Spec == Init /\ [][Next]_vars

(***************************************************************************)
(* process_all_files without an interrupt: every call returns, with a      *)
(* result or an error, and the statement control is at is executed.        *)
(***************************************************************************)
NextBatch ==
    \/ Glob
    \/ ForNext
    \/ Summary
    \/ Mkdir
    \/ LoadMetadata
    \/ ShowMetadata
    \/ LoadAudio
    \/ LoadModel
    \/ Transcribe
    \/ LoadAlignModel
    \/ Align
    \/ ClearGpu
    \/ DiarizationPipeline
    \/ Diarize
    \/ AssignWordSpeakers
    \/ SaveResults
    \/ SaveTranscript
    \/ SaveConversation
    \/ SaveTextFormat
    \/ ReturnTrue

\* the statements of process_all_files and process_audio_file, and the two
\* ends of main
Statements ==
    {"glob", "for", "mkdir", "load_metadata", "show_metadata", "load_audio",
     "load_model", "transcribe", "load_align_model", "align", "clear_gpu",
     "diarization_pipeline", "diarize", "assign_word_speakers", "save_results",
     "save_transcript", "save_conversation", "save_text_format", "return_True",
     "exit", "interrupted"}

\* control leaves the statement it is at: the statement is executed and
\* returns, with a result or an error.  Every step of NextBatch is such a
\* step, and one is possible exactly until main has ended.
Advance ==
    /\ pc \notin {"exit", "interrupted"}
    /\ pc' \in Statements

SpecBatch == Init /\ [][NextBatch]_vars /\ WF_pc(Advance)

(***************************************************************************)
(* save_results on arbitrary arguments: the three writers are entered with *)
(* any list of segments and any speaker mapping.                           *)
(***************************************************************************)
\* result["segments"] has at most this many segments
MaxSegments == 3

\* the words the recognizer hears, by position
Words == << <<"H","i">>, <<"t","h","e","r","e">>, <<"B","y","e">>, <<"n","o","w">> >>

\* segment['text'] of the k-th segment: the word, bare at the odd positions
\* and with whitespace around it at the even ones, or whitespace only
SegmentTexts(k) ==
    LET word == Words[((k - 1) % Len(Words)) + 1]
    IN {IF k % 2 = 1 THEN word ELSE <<" ">> \o word \o <<" ">>, <<" ">>}

\* segment['speaker'] as the diarization labels it, or no such key
SegmentSpeakers == {"S1", "S2", NoSpeaker}

\* the k-th segment of a result
SegmentsAt(k) ==
    {IF speaker = NoSpeaker
     THEN [start |-> k - 1, end |-> k, text |-> text]
     ELSE [start |-> k - 1, end |-> k, text |-> text, speaker |-> speaker] :
        text \in SegmentTexts(k), speaker \in SegmentSpeakers}

\* result["segments"]: the lists of at most n segments
RECURSIVE SegmentLists(_)
SegmentLists(n) ==
    IF n = 0 THEN {<<>>}
    ELSE LET shorter == SegmentLists(n - 1)
         IN shorter \cup
            {Append(q[1], q[2]) :
                q \in {r \in shorter \X SegmentsAt(n) : Len(r[1]) = n - 1}}

\* speaker_mapping: empty, label to attendee name, or a name that is itself
\* a label
SpeakerMappings ==
    { <<>>, [S1 |-> "Alice", S2 |-> "Bob"], [S1 |-> "S2", S2 |-> "Bob"] }

\* the writers save_results calls, each entered with its arguments
InitSave ==
    /\ wav_files = <<StemEvent>>
    /\ i = 1
    /\ pc \in {"save_transcript", "save_conversation", "save_text_format"}
    /\ successful = 0
    /\ failed = 0
    /\ files = <<>>
    /\ metadata = align_metadata
    /\ metadata_location = <<>>
    /\ consulted = <<>>
    /\ resolved = None
    /\ speaker_count = DefaultSpeakerCount
    /\ resident = {"diarization"}
    /\ result \in SegmentLists(MaxSegments)
    /\ stages = SubSeq(StageOrder, 1, 5)
    /\ diarize_args = [min_speakers |-> DefaultSpeakerCount,
                       max_speakers |-> DefaultSpeakerCount]
    /\ disk = <<>>
    /\ speaker_mapping \in SpeakerMappings
    /\ attempted = <<StemEvent>>
    /\ outcomes = <<>>
    /\ summary = <<>>

NextSave ==
    \/ SaveTranscript
    \/ SaveConversation
    \/ SaveTextFormat
    \/ ReturnTrue

SpecSave == InitSave /\ [][NextSave]_vars

(***************************************************************************)
(* save_results a second time: an earlier processing of the recording has  *)
(* written its three artifacts, and the recording is processed again with  *)
(* the same segments and the same speaker mapping.                         *)
(***************************************************************************)
\* the disk a completed save_results leaves for a stem, given the segments
\* and the mapping it was called with
disk_after_save_results(stem, segments, mapping) ==
    LET mapped == map_segments(segments, mapping)
        out == output_dir_of(stem)
    IN [q \in {transcript_path(stem, out), conversation_path(stem, out),
               text_path(stem, out)} |->
           IF q = transcript_path(stem, out)
           THEN [kind |-> "transcript", segments |-> mapped]
           ELSE IF q = conversation_path(stem, out)
           THEN [kind |-> "conversation", turns |-> conversation_of(mapped, mapping)]
           ELSE [kind |-> "text", lines |-> text_lines(mapped, mapping)]]

InitAgain ==
    /\ wav_files = <<StemEvent>>
    /\ i = 1
    /\ pc = "save_transcript"
    /\ successful = 0
    /\ failed = 0
    /\ files = <<>>
    /\ metadata = align_metadata
    /\ metadata_location = <<>>
    /\ consulted = <<>>
    /\ resolved = None
    /\ speaker_count = DefaultSpeakerCount
    /\ resident = {"diarization"}
    /\ result \in SegmentLists(MaxSegments)
    /\ stages = SubSeq(StageOrder, 1, 5)
    /\ diarize_args = [min_speakers |-> DefaultSpeakerCount,
                       max_speakers |-> DefaultSpeakerCount]
    /\ speaker_mapping \in SpeakerMappings
    /\ disk = disk_after_save_results(StemEvent, result, speaker_mapping)
    /\ attempted = <<StemEvent>>
    /\ outcomes = <<>>
    /\ summary = <<>>

SpecAgain == InitAgain /\ [][NextSave]_vars

(***************************************************************************)
(* The naming of the output directories on arbitrary stems: batches of one *)
(* or two recordings whose stems are built from a few tokens, the loop at  *)
(* the computation of dir_name for the last of them.                       *)
(***************************************************************************)
\* a stem has at most this many underscore-delimited tokens
MaxTokens == 6

\* the tokens of the stems: a word and a date
NamingTokens == { <<"E","v">>, <<"2","0","2","4","0","1","1","5">> }

\* the lists of at least one and at most n tokens
RECURSIVE TokenLists(_)
TokenLists(n) ==
    IF n = 1 THEN {<<t>> : t \in NamingTokens}
    ELSE LET shorter == TokenLists(n - 1)
         IN shorter \cup
            {Append(q[1], q[2]) :
                q \in {r \in shorter \X NamingTokens : Len(r[1]) = n - 1}}

\* wav_file.stem of the files glob may yield
NamingStems == {join(tokens, "_") : tokens \in TokenLists(MaxTokens)}

\* list(self.workspace_dir.glob("*.wav")) with one or two files
NamingBatches ==
    {<<a>> : a \in NamingStems} \cup
    {<<q[1], q[2]>> : q \in {r \in NamingStems \X NamingStems : r[1] # r[2]}}

\* the loop has come to the last recording of the batch; the recording
\* before it, if any, failed in load_audio
InitNaming ==
    /\ wav_files \in NamingBatches
    /\ i = Len(wav_files)
    /\ pc = "mkdir"
    /\ successful = 0
    /\ failed = i - 1
    /\ files = <<>>
    /\ metadata = None
    /\ metadata_location = <<>>
    /\ consulted = <<>>
    /\ resolved = None
    /\ speaker_count = 0
    /\ resident = {}
    /\ result = <<>>
    /\ stages = <<>>
    /\ diarize_args = <<>>
    /\ disk = <<>>
    /\ speaker_mapping = <<>>
    /\ attempted = wav_files
    /\ outcomes = [k \in 1..(i - 1) |->
                      [stem |-> wav_files[k], succeeded |-> FALSE, error |-> "Load"]]
    /\ summary = <<>>

NextNaming == Mkdir

SpecNaming == InitNaming /\ [][NextNaming]_vars

(***************************************************************************)
(* Vocabulary of the properties.                                           *)
(***************************************************************************)
\* the recording is inside process_audio_file, after load_metadata returned
metadata_resolved ==
    pc \notin {"glob", "for", "mkdir", "load_metadata", "exit", "interrupted"}

\* the candidate locations of the current recording
candidates == metadata_locations(wav_parent, wav_path)

\* the k-th candidate exists, parses and contains speaker_count
valid_candidate(k) ==
    /\ candidates[k].path \in DOMAIN files
    /\ files[candidates[k].path].kind = "json"
    /\ has_key(files[candidates[k].path].value, "speaker_count")

\* the k-th candidate exists and cannot be read or parsed
unreadable_candidate(k) ==
    /\ candidates[k].path \in DOMAIN files
    /\ files[candidates[k].path].kind = "corrupt"

\* the three artifacts of a stem, as the batch driver and save_results name them
artifacts(stem) ==
    LET dir == output_dir_of(stem)
    IN { transcript_path(stem, dir),
         conversation_path(stem, dir),
         text_path(stem, dir) }

\* the failures the orchestrator calls stage failures: load, transcribe,
\* align, diarize, label
StageFailures == {"Load", "Transcribe", "Align", "Diarize", "Label"}

\* the number of recorded outcomes that are successes / failures
count_outcomes(succeeded) ==
    Cardinality({k \in 1..Len(outcomes) : outcomes[k].succeeded = succeeded})

(***************************************************************************)
(* C1.  At every point of process_audio_file at most one heavy model (ASR, *)
(* alignment, diarization) is resident; in particular the ASR model is     *)
(* released before the alignment model is acquired.                        *)
(***************************************************************************)
C1_AtMostOneHeavyModel == Cardinality(resident) <= 1

(***************************************************************************)
(* C2.  The stages of a recording run in the order Load, Transcribe,       *)
(* Align, Diarize, Label, Materialize: the statements of a stage are       *)
(* reached only when exactly the stages before it have completed, and      *)
(* success is returned only after all six completed.                       *)
(***************************************************************************)
\* the number of stages that must have completed when control is at pc
stages_before(at) ==
    CASE at \in {"mkdir", "load_metadata", "show_metadata", "load_audio"} -> 0
      [] at \in {"load_model", "transcribe"} -> 1
      [] at \in {"load_align_model", "align"} -> 2
      [] at \in {"clear_gpu", "diarization_pipeline", "diarize"} -> 3
      [] at = "assign_word_speakers" -> 4
      [] at \in {"save_results", "save_transcript", "save_conversation",
                 "save_text_format"} -> 5
      [] at = "return_True" -> 6
      [] OTHER -> 0

C2_StagesInOrder ==
    /\ stages = SubSeq(StageOrder, 1, stages_before(pc))
    /\ \A k \in 1..Len(outcomes) :
          outcomes[k].succeeded =>
              artifacts(outcomes[k].stem) \subseteq DOMAIN disk

C2_Witness == pc = "return_True" /\ stages = StageOrder

(***************************************************************************)
(* C3.  A failure while handling one recording never prevents a later      *)
(* recording from being attempted: the loop body is entered for the        *)
(* recordings in enumeration order, every failure returns control to the   *)
(* loop, and the batch ends with every enumerated recording attempted.     *)
(***************************************************************************)
C3_EveryRecordingAttempted ==
    /\ pc # "interrupted" => attempted = SubSeq(wav_files, 1, i)
    /\ pc = "exit" => attempted = wav_files
    /\ (pc = "for" /\ i < Len(wav_files)) => ENABLED ForNext

C3_Witness ==
    /\ pc = "exit"
    /\ Len(attempted) = 2
    /\ outcomes[1].error \in {"mkdir", "metadata", "Diarize", "Materialize"}
    /\ outcomes[2].succeeded

(***************************************************************************)
(* C4.  In the final summary succeeded is the number of recordings that    *)
(* did not fail, failed the number that failed, and they add up to the     *)
(* total; a recording counted as succeeded has its three output files      *)
(* written, and a recording that failed at a pipeline stage (load,         *)
(* transcribe, align, diarize, label) has none.                            *)
(***************************************************************************)
C4_SummaryMatchesOutcomes ==
    (pc = "exit" /\ wav_files # <<>>) =>
        /\ summary.kind = "summary"
        /\ summary.successful = count_outcomes(TRUE)
        /\ summary.failed = count_outcomes(FALSE)
        /\ summary.successful + summary.failed = summary.total
        /\ summary.total = Len(wav_files)
        /\ \A k \in 1..Len(outcomes) :
              /\ outcomes[k].stem = wav_files[k]
              /\ outcomes[k].succeeded =>
                    \A path \in artifacts(outcomes[k].stem) :
                        path \in DOMAIN disk /\ disk[path].kind # "truncated"
              /\ (~outcomes[k].succeeded /\ outcomes[k].error \in StageFailures) =>
                    artifacts(outcomes[k].stem) \cap DOMAIN disk = {}

C4_Witness ==
    /\ pc = "exit"
    /\ Len(outcomes) = 2
    /\ outcomes[1].error = "Align"
    /\ outcomes[2].succeeded
    /\ summary.successful = 1
    /\ summary.failed = 1

(***************************************************************************)
(* C5.  A recording whose outcome is failure leaves no partial output:     *)
(* none of its three artifacts was written in this run.                    *)
(***************************************************************************)
C5_NoPartialOutput ==
    \A k \in 1..Len(outcomes) :
        ~outcomes[k].succeeded =>
            artifacts(outcomes[k].stem) \cap DOMAIN disk = {}

(***************************************************************************)
(* C6.  When the metadata resolved for the recording lists attendees, the  *)
(* speaker map used by save_results maps SPEAKER_i to the name of the i-th *)
(* attendee, and every speaker of the persisted transcript is the mapped   *)
(* name of the raw label (the raw label where the map has none).           *)
(***************************************************************************)
\* the map of the data model: ordinal i, 1-based, to the i-th attendee's name
attendee_map(md) ==
    LET att == md["attendees"]
    IN [key \in {"SPEAKER_" \o ToString(n) : n \in 1..Len(att)} |->
           att[CHOOSE n \in 1..Len(att) : key = "SPEAKER_" \o ToString(n)].name]

\* the segments carry the speakers labels gave them, seen through the map
labels_mapped(segments, labels, map) ==
    /\ Len(segments) = Len(labels)
    /\ \A k \in 1..Len(segments) :
          IF labels[k] = NoSpeaker
          THEN ~has_key(segments[k], "speaker")
          ELSE /\ has_key(segments[k], "speaker")
               /\ segments[k].speaker = dict_get(map, labels[k], labels[k])

C6_MapFromResolvedMetadata ==
    (/\ pc \in {"save_transcript", "save_conversation", "save_text_format", "return_True"}
     /\ truthy(resolved)
     /\ has_key(resolved, "attendees")) =>
        /\ speaker_mapping = attendee_map(resolved)
        /\ (/\ transcript_path(wav_path, output_dir) \in DOMAIN disk
            /\ disk[transcript_path(wav_path, output_dir)].kind = "transcript") =>
              \E labels \in Labelings(wav_path) :
                  labels_mapped(disk[transcript_path(wav_path, output_dir)].segments,
                                labels, attendee_map(resolved))

(***************************************************************************)
(* C7.  load_metadata returns the first candidate, in the order parent     *)
(* directory, workspace root, output directory, that exists, parses and    *)
(* contains speaker_count, with its location; a candidate without          *)
(* speaker_count is passed over; no candidate after the returned one is    *)
(* consulted; without such a candidate it returns None.                    *)
(***************************************************************************)
\* the first valid candidate's index, 0 when there is none
first_valid ==
    IF \E k \in 1..3 : valid_candidate(k)
    THEN CHOOSE k \in 1..3 : valid_candidate(k) /\ \A j \in 1..(k - 1) : ~valid_candidate(j)
    ELSE 0

C7_FirstValidCandidateWins ==
    (pc = "show_metadata") =>
        IF first_valid = 0
        THEN metadata = None /\ metadata_location = <<>>
        ELSE /\ metadata = files[candidates[first_valid].path].value
             /\ metadata_location = candidates[first_valid].path
             /\ consulted = [k \in 1..first_valid |-> candidates[k].path]

(***************************************************************************)
(* C8.  An I/O or parse error on one candidate never aborts resolution:    *)
(* with an unreadable earlier candidate and a valid later one the later    *)
(* record is returned, and None is returned only when every candidate has  *)
(* been tried.                                                             *)
(***************************************************************************)
C8_ErrorsDoNotAbortResolution ==
    (pc = "show_metadata") =>
        /\ \A k \in 1..3 :
              (/\ valid_candidate(k)
               /\ \A j \in 1..(k - 1) : ~valid_candidate(j)
               /\ \E j \in 1..(k - 1) : unreadable_candidate(j)) =>
                  metadata = files[candidates[k].path].value
        /\ metadata = None => Len(consulted) = 3

(***************************************************************************)
(* C9.  The third candidate consulted for a recording is the sidecar       *)
(* <stem>_metadata.json inside the output directory the batch driver       *)
(* computes for the recording.                                             *)
(***************************************************************************)
C9_ThirdCandidateInOutputDir ==
    (pc = "show_metadata" /\ Len(consulted) = 3) =>
        consulted[3] = output_dir \o <<wav_path \o metadata_suffix>>

(***************************************************************************)
(* C10.  When no metadata candidate exists for a recording, load_metadata  *)
(* returns None and the diarization of the recording is called with the    *)
(* default speaker count 2.                                                *)
(***************************************************************************)
C10_DefaultSpeakerCount ==
    /\ (pc = "show_metadata" /\ DOMAIN files = {}) =>
          metadata = None /\ metadata_location = <<>> /\ resolved = None
    /\ (metadata_resolved /\ resolved = None) =>
          /\ metadata_location = <<>>
          /\ pc # "show_metadata" => speaker_count = 2
          /\ diarize_args # <<>> =>
                diarize_args = [min_speakers |-> 2, max_speakers |-> 2]

C10_Witness ==
    /\ pc = "assign_word_speakers"
    /\ resolved = None
    /\ metadata_location = <<>>
    /\ diarize_args = [min_speakers |-> 2, max_speakers |-> 2]

(***************************************************************************)
(* C11.  Missing or invalid metadata is never fatal to a recording: when   *)
(* a sidecar is malformed (unparseable, without speaker_count, or with an  *)
(* attendees entry that has no name) the pipeline of the recording still   *)
(* runs, with the default speaker count where no count could be read, and  *)
(* the recording is not counted as failed because of its metadata.         *)
(***************************************************************************)
C11_MetadataNeverFatal ==
    /\ \A k \in 1..Len(outcomes) : outcomes[k].error # "metadata"
    /\ (metadata_resolved /\ pc # "show_metadata" /\ resolved = None) =>
          speaker_count = DefaultSpeakerCount

(***************************************************************************)
(* C12.  Every diarization call is made with min_speakers = max_speakers   *)
(* = the speaker count resolved for the recording (the speaker_count of    *)
(* its metadata, or the default 2 when no metadata was found), and the     *)
(* count does not change between its resolution and the Diarize stage.     *)
(***************************************************************************)
C12_DiarizeWithResolvedCount ==
    LET count == IF resolved # None THEN resolved["speaker_count"]
                 ELSE DefaultSpeakerCount
    IN /\ (metadata_resolved /\ pc # "show_metadata") => speaker_count = count
       /\ diarize_args # <<>> =>
             diarize_args = [min_speakers |-> count, max_speakers |-> count]

C12_Witness ==
    /\ pc = "assign_word_speakers"
    /\ resolved # None
    /\ resolved["speaker_count"] # DefaultSpeakerCount
    /\ diarize_args = [min_speakers |-> resolved["speaker_count"],
                       max_speakers |-> resolved["speaker_count"]]

(***************************************************************************)
(* Vocabulary of the properties of the writers.                            *)
(***************************************************************************)
\* the name a segment is written under: its label, "Unknown" without one,
\* replaced by the mapping's entry for it when there is one
written_speaker(segment, map) ==
    LET label == IF "speaker" \in DOMAIN segment THEN segment["speaker"]
                 ELSE "Unknown"
    IN IF label \in DOMAIN map THEN map[label] ELSE label

\* the last segment of the maximal run of one written speaker that begins
\* at segment first
run_last(segments, map, first) ==
    CHOOSE last \in first..Len(segments) :
        /\ \A k \in first..last :
              written_speaker(segments[k], map) = written_speaker(segments[first], map)
        /\ last < Len(segments) =>
              written_speaker(segments[last + 1], map) #
                  written_speaker(segments[first], map)

\* the maximal runs of consecutive segments of one written speaker, in
\* order, from segment first on
RECURSIVE runs_from(_, _, _)
runs_from(segments, map, first) ==
    IF first > Len(segments) THEN <<>>
    ELSE LET last == run_last(segments, map, first)
         IN <<[first |-> first, last |-> last]>> \o runs_from(segments, map, last + 1)

\* the trimmed texts of the segments of a run, joined by single spaces
run_text(segments, run) ==
    join([j \in 1..(run.last - run.first + 1) |->
             strip(segments[run.first + j - 1].text)], " ")

\* the conversation file of the current recording is on disk, written from
\* the segments in result
conversation_written ==
    /\ pc \in {"save_text_format", "return_True"}
    /\ conversation_path(wav_path, output_dir) \in DOMAIN disk
    /\ disk[conversation_path(wav_path, output_dir)].kind = "conversation"

\* the turns in the conversation file of the current recording
turns == disk[conversation_path(wav_path, output_dir)].turns

(***************************************************************************)
(* C13 as stated.  save_conversation emits one turn per maximal run of     *)
(* consecutive segments with the same mapped speaker, in order, and the    *)
(* text of a turn is the run's trimmed segment texts joined by single      *)
(* spaces.                                                                 *)
(***************************************************************************)
C13_TurnPerRunJoined ==
    conversation_written =>
        LET runs == runs_from(result, speaker_mapping, 1)
        IN turns = [n \in 1..Len(runs) |->
                      [speaker |-> written_speaker(result[runs[n].first], speaker_mapping),
                       text |-> run_text(result, runs[n])]]

(***************************************************************************)
(* C13.  save_conversation emits one turn per maximal run of consecutive   *)
(* segments with the same mapped speaker, in order, and the text of a turn *)
(* is the run's trimmed segment texts joined by single spaces, with the    *)
(* whitespace at the two ends of the joined text removed.                  *)
(***************************************************************************)
C13_TurnPerRunJoinedTrimmed ==
    conversation_written =>
        LET runs == runs_from(result, speaker_mapping, 1)
        IN turns = [n \in 1..Len(runs) |->
                      [speaker |-> written_speaker(result[runs[n].first], speaker_mapping),
                       text |-> strip(run_text(result, runs[n]))]]

\* Hi/S1, there/S1, Bye/S2 with S1 -> Alice, S2 -> Bob
C13_Witness ==
    /\ conversation_written
    /\ Len(result) = 3
    /\ \A k \in 1..3 : strip(result[k].text) = Words[k] /\ "speaker" \in DOMAIN result[k]
    /\ <<result[1].speaker, result[2].speaker, result[3].speaker>> = <<"S1", "S1", "S2">>
    /\ speaker_mapping = [S1 |-> "Alice", S2 |-> "Bob"]
    /\ turns = << [speaker |-> "Alice", text |-> <<"H","i"," ","t","h","e","r","e">>],
                  [speaker |-> "Bob", text |-> <<"B","y","e">>] >>

\* the words of a text: its maximal stretches without whitespace, in order
RECURSIVE words(_)
words(s) ==
    LET t == lstrip(s)
    IN IF t = <<>> THEN <<>>
       ELSE LET stop == IF \E k \in 1..Len(t) : is_space(t[k])
                        THEN CHOOSE k \in 1..Len(t) :
                                /\ is_space(t[k])
                                /\ \A j \in 1..(k - 1) : ~is_space(t[j])
                        ELSE Len(t) + 1
            IN <<SubSeq(t, 1, stop - 1)>> \o words(SubSeq(t, stop, Len(t)))

(***************************************************************************)
(* C14.  Coalescing segments into turns neither drops nor duplicates       *)
(* words: the texts of all turns joined by spaces and the trimmed texts of *)
(* all segments joined by spaces, in order, are the same sequence of       *)
(* words (equal up to whitespace normalization).                           *)
(***************************************************************************)
C14_NoWordDroppedOrDuplicated ==
    conversation_written =>
        words(join([n \in 1..Len(turns) |-> turns[n].text], " ")) =
            words(join([k \in 1..Len(result) |-> strip(result[k].text)], " "))

\* three words in two turns, the first turn coalesced from two segments
C14_Witness ==
    /\ conversation_written
    /\ Len(result) = 3
    /\ Len(turns) = 2
    /\ Len(runs_from(result, speaker_mapping, 1)) = 2
    /\ run_last(result, speaker_mapping, 1) = 2
    /\ words(join([n \in 1..Len(turns) |-> turns[n].text], " ")) =
          <<Words[1], Words[2], Words[3]>>
    /\ result[2].text = <<" ">> \o Words[2] \o <<" ">>

\* the text file of the current recording is on disk, written from the
\* segments in result
text_written ==
    /\ pc = "return_True"
    /\ text_path(wav_path, output_dir) \in DOMAIN disk
    /\ disk[text_path(wav_path, output_dir)].kind = "text"

\* the lines of the text file of the current recording
lines == disk[text_path(wav_path, output_dir)].lines

\* '<speaker>: <text>\n'
line_of(speaker, text) == <<speaker>> \o <<":", " ">> \o text \o <<"\n">>

(***************************************************************************)
(* C15 as stated.  <stem>.txt holds exactly one line per conversation      *)
(* turn, '<speaker>: <text>\n', in turn order: as many lines as turns.     *)
(***************************************************************************)
C15_LinePerTurn ==
    text_written =>
        LET runs == runs_from(result, speaker_mapping, 1)
        IN lines = [n \in 1..Len(runs) |->
                      line_of(written_speaker(result[runs[n].first], speaker_mapping),
                              strip(run_text(result, runs[n])))]

(***************************************************************************)
(* C15.  <stem>.txt holds exactly one line per segment, '<speaker>:        *)
(* <text>\n' with the segment's mapped speaker and trimmed text, in        *)
(* segment order: as many lines as segments.                               *)
(***************************************************************************)
C15_LinePerSegment ==
    text_written =>
        /\ Len(lines) = Len(result)
        /\ \A k \in 1..Len(result) :
              lines[k] = line_of(written_speaker(result[k], speaker_mapping),
                                 strip(result[k].text))

\* three segments in two turns give three lines
C15_Witness ==
    /\ text_written
    /\ Len(result) = 3
    /\ Len(runs_from(result, speaker_mapping, 1)) = 2
    /\ Len(lines) = 3
    /\ lines[1] = <<"Alice", ":", " ">> \o Words[1] \o <<"\n">>

(***************************************************************************)
(* Vocabulary of the properties of the directory names.                    *)
(***************************************************************************)
\* the underscore-delimited tokens of a stem
tokens(stem) == split(stem, "_")

\* a token rewritten as YYYY-MM-DD: its first four characters, '-', the
\* next two, '-', the rest
as_date(token) ==
    [k \in 1..(Len(token) + 2) |->
        IF Len(token) <= 4
        THEN (IF k <= Len(token) THEN token[k] ELSE "-")
        ELSE IF k <= 4 THEN token[k]
        ELSE IF k = 5 THEN "-"
        ELSE IF Len(token) <= 6
             THEN (IF k <= Len(token) + 1 THEN token[k - 1] ELSE "-")
        ELSE IF k <= 7 THEN token[k - 1]
        ELSE IF k = 8 THEN "-"
        ELSE token[k - 2]]

\* the tokens of a stem strictly between the first two and the last two
title_tokens(stem) == SubSeq(tokens(stem), 3, Len(tokens(stem)) - 2)

\* the second-to-last token of a stem
date_token(stem) == tokens(stem)[Len(tokens(stem)) - 1]

\* the directory of the current recording has been computed and created
directory_made == pc = "load_metadata"

(***************************************************************************)
(* C16 as stated.  For the stem AO_REC_WeeklySync_20240115_093000 the      *)
(* batch driver computes the output directory name WeeklySync_2024-01-15.  *)
(***************************************************************************)
C16_WeeklySyncDirectory ==
    (directory_made /\ wav_path = StemWeekly) =>
        output_dir = output_base_dir \o
            << <<"W","e","e","k","l","y","S","y","n","c","_",
                 "2","0","2","4","-","0","1","-","1","5">> >>

(***************************************************************************)
(* C16.  For the stem AO_REC_WeeklySync_20240115_093000, which has five    *)
(* underscore-delimited tokens, the batch driver computes the bare stem    *)
(* AO_REC_WeeklySync_20240115_093000 as the output directory name.         *)
(***************************************************************************)
C16_WeeklySyncBareStem ==
    (directory_made /\ wav_path = StemWeekly) =>
        output_dir = output_base_dir \o <<StemWeekly>>

C16_Witness ==
    /\ directory_made
    /\ wav_path = StemWeekly
    /\ tokens(wav_path) = << <<"A","O">>, <<"R","E","C">>,
                             <<"W","e","e","k","l","y","S","y","n","c">>,
                             <<"2","0","2","4","0","1","1","5">>,
                             <<"0","9","3","0","0","0">> >>
    /\ output_dir = output_base_dir \o <<wav_path>>

(***************************************************************************)
(* C17.  The output directory name is a function of the stem alone: for a  *)
(* stem of at least 6 underscore-delimited tokens it is the tokens         *)
(* strictly between the first two and the last two joined by '_', then     *)
(* '_', then the second-to-last token rewritten as YYYY-MM-DD; for a stem  *)
(* of fewer than 6 tokens it is the bare stem.                             *)
(***************************************************************************)
C17_DirectoryNameFromStem ==
    directory_made =>
        output_dir = output_base_dir \o
            << IF Len(tokens(wav_path)) >= 6
               THEN join(title_tokens(wav_path), "_") \o <<"_">> \o
                    as_date(date_token(wav_path))
               ELSE wav_path >>

\* a title of two tokens and a date of eight digits
C17_Witness ==
    /\ directory_made
    /\ Len(tokens(wav_path)) = 6
    /\ Len(date_token(wav_path)) = 8
    /\ output_dir = output_base_dir \o
          << <<"E","v","_","E","v","_","2","0","2","4","-","0","1","-","1","5">> >>

(***************************************************************************)
(* C18 as stated.  Within one batch two different recordings are never     *)
(* given the same output directory.                                        *)
(***************************************************************************)
C18_DistinctDirectories ==
    directory_made =>
        \A j, k \in 1..i :
            j # k => output_dir_of(wav_files[j]) # output_dir_of(wav_files[k])

(***************************************************************************)
(* C18.  Within one batch two different recordings whose stems both have   *)
(* fewer than 6 tokens are never given the same output directory; two      *)
(* whose stems both have at least 6 tokens are given the same directory    *)
(* exactly when the stems agree on every token but the first two and the   *)
(* last (so two stems that share title and date and differ only in their   *)
(* time token share one directory).                                        *)
(***************************************************************************)
C18_SharedDirectories ==
    directory_made =>
        \A j, k \in 1..i :
            LET a == wav_files[j]
                b == wav_files[k]
                shared == output_dir_of(a) = output_dir_of(b)
            IN /\ (j # k /\ Len(tokens(a)) < 6 /\ Len(tokens(b)) < 6) => ~shared
               /\ (Len(tokens(a)) >= 6 /\ Len(tokens(b)) >= 6) =>
                     (shared <=> /\ title_tokens(a) = title_tokens(b)
                                 /\ date_token(a) = date_token(b))

\* two recordings of one title and date that differ in the time token
C18_Witness ==
    /\ directory_made
    /\ i = 2
    /\ Len(tokens(wav_files[1])) = 6
    /\ Len(tokens(wav_files[2])) = 6
    /\ SubSeq(tokens(wav_files[1]), 1, 5) = SubSeq(tokens(wav_files[2]), 1, 5)
    /\ tokens(wav_files[1])[6] # tokens(wav_files[2])[6]
    /\ output_dir_of(wav_files[1]) = output_dir

(***************************************************************************)
(* C19.  When a KeyboardInterrupt arrives during a batch, the batch driver *)
(* stops and still reports the summary, the counts of the recordings that  *)
(* succeeded and failed before the interrupt, before the process ends.     *)
(***************************************************************************)
C19_SummaryAfterInterrupt ==
    (pc = "interrupted" /\ Len(attempted) > 0) =>
        /\ summary # <<>>
        /\ summary.kind = "summary"
        /\ summary.successful = successful
        /\ summary.failed = failed

(***************************************************************************)
(* C20.  An interrupt is honored only between recordings: the batch stops  *)
(* on an interrupt only where no pipeline is running, so a pipeline that   *)
(* has started is never abandoned mid-stage and runs to its success or     *)
(* failure outcome first.                                                  *)
(***************************************************************************)
C20_InterruptBetweenRecordings ==
    [][(pc' = "interrupted" /\ pc # "interrupted") =>
          pc \in {"glob", "for", "mkdir"}]_vars

(***************************************************************************)
(* C21.  The process exit status is 0 whenever the batch ran to            *)
(* completion, whatever the number of failed recordings, and non-zero on a *)
(* setup-level failure (input directory missing, or no recordings found).  *)
(***************************************************************************)
C21_ExitStatus ==
    pc = "exit" =>
        /\ summary.kind = "summary" => exit_status = 0
        /\ summary.kind = "no wav files" => exit_status # 0

(***************************************************************************)
(* C22.  When the enumeration finds zero recordings, process_all_files     *)
(* reports that no recordings were found and never evaluates the success   *)
(* rate: the division successful/total is evaluated with total >= 1 only.  *)
(***************************************************************************)
C22_NoDivisionByZero ==
    /\ (pc = "exit" /\ wav_files = <<>>) => summary = [kind |-> "no wav files"]
    /\ (summary # <<>> /\ summary.kind = "summary") =>
          summary.total = Len(wav_files) /\ summary.total >= 1

C22_Witness ==
    /\ pc = "exit"
    /\ wav_files = <<>>
    /\ summary = [kind |-> "no wav files"]
    /\ attempted = <<>>

unlabeled(segment) == "speaker" \notin DOMAIN segment

\* the mapped label of a segment, <<>> for a segment without a label
mapped_label(segment, map) ==
    IF unlabeled(segment) THEN <<>>
    ELSE IF segment["speaker"] \in DOMAIN map THEN <<map[segment["speaker"]]>>
    ELSE <<segment["speaker"]>>

\* the place, among the turns, of the turn that holds segment k: one more
\* than the number of changes of mapped label up to k
turn_index(segments, map, k) ==
    Cardinality({j \in 1..k :
                    \/ j = 1
                    \/ mapped_label(segments[j], map) #
                           mapped_label(segments[j - 1], map)})

(***************************************************************************)
(* C24.  A segment with no speaker label is treated as speaker "Unknown"   *)
(* when turns are coalesced: consecutive unlabeled segments form one turn  *)
(* with speaker "Unknown", and an unlabeled segment between two labeled    *)
(* runs starts a new "Unknown" turn.                                       *)
(***************************************************************************)
C24_UnlabeledIsUnknown ==
    conversation_written =>
        /\ Len(turns) = turn_index(result, speaker_mapping, Len(result))
        /\ \A k \in 1..Len(result) :
              turns[turn_index(result, speaker_mapping, k)].speaker =
                  IF unlabeled(result[k]) THEN "Unknown"
                  ELSE mapped_label(result[k], speaker_mapping)[1]

\* an unlabeled segment between two labeled ones is a turn of its own
C24_Witness ==
    /\ conversation_written
    /\ Len(result) = 3
    /\ ~unlabeled(result[1]) /\ unlabeled(result[2]) /\ ~unlabeled(result[3])
    /\ Len(turns) = 3
    /\ turns[2] = [speaker |-> "Unknown", text |-> Words[2]]

(***************************************************************************)
(* C25.  By the time save_results starts for a recording the diarization   *)
(* model acquired for Diarize has been released: no heavy model is         *)
(* resident while the results are written.                                 *)
(***************************************************************************)
C25_NoModelWhileWriting ==
    pc \in {"save_results", "save_transcript", "save_conversation", "save_text_format"} =>
        resident = {}

(***************************************************************************)
(* C26.  After the last segment save_conversation emits the final buffered *)
(* turn if and only if text was accumulated for it: a final turn whose     *)
(* segments all have empty or whitespace-only text is not emitted, and an  *)
(* empty segment list yields an empty turn list.                           *)
(***************************************************************************)
C26_FinalTurnOnlyWithText ==
    conversation_written =>
        LET runs == runs_from(result, speaker_mapping, 1)
        IN /\ Len(result) = 0 => turns = <<>>
           /\ Len(result) > 0 =>
                 IF strip(run_text(result, runs[Len(runs)])) = <<>>
                 THEN Len(turns) = Len(runs) - 1
                 ELSE /\ Len(turns) = Len(runs)
                      /\ turns[Len(turns)].text # <<>>

(***************************************************************************)
(* C27.  If every model gateway call and every file operation returns,     *)
(* process_all_files terminates: each enumerated recording is attempted    *)
(* exactly once, in enumeration order, control returns to the batch loop   *)
(* after each one, and the summary is emitted after the last.              *)
(***************************************************************************)
C27_BatchTerminates ==
    <>(/\ pc = "exit"
       /\ attempted = wav_files
       /\ Len(outcomes) = Len(wav_files)
       /\ \A k \in 1..Len(wav_files) : outcomes[k].stem = wav_files[k]
       /\ wav_files # <<>> => summary.kind = "summary")

\* a batch of two recordings, the first failed, has come to its summary
C27_Witness ==
    /\ pc = "exit"
    /\ Len(wav_files) = 2
    /\ attempted = wav_files
    /\ Len(outcomes) = 2
    /\ ~outcomes[1].succeeded
    /\ outcomes[2].succeeded
    /\ summary.kind = "summary"

\* save_results has written the three artifacts of the current recording
all_written ==
    /\ pc = "return_True"
    /\ artifacts(wav_path) \subseteq DOMAIN disk
    /\ disk[transcript_path(wav_path, output_dir)].kind = "transcript"
    /\ disk[conversation_path(wav_path, output_dir)].kind = "conversation"
    /\ disk[text_path(wav_path, output_dir)].kind = "text"

\* the speaker of segment k in <stem>.json; a segment without the key has
\* none and reads as "Unknown"
speaker_in_transcript(k) ==
    LET segment == disk[transcript_path(wav_path, output_dir)].segments[k]
    IN IF "speaker" \in DOMAIN segment THEN segment["speaker"] ELSE "Unknown"

C29_ModelsReleasedBetweenRecordings ==
    pc \in {"for", "mkdir", "load_metadata", "show_metadata", "load_audio",
            "load_model", "exit"} =>
        resident = {}

\* the second recording is about to load its ASR model after the first
\* failed in Align, with the ASR and alignment models loaded
C29_Witness ==
    /\ pc = "load_model"
    /\ i = 2
    /\ outcomes = <<[stem |-> wav_files[1], succeeded |-> FALSE, error |-> "Align"]>>
    /\ resident = {}

(***************************************************************************)
(* C30.  Within one batch two different recordings never write the same    *)
(* output file path: the three artifact paths of a recording are named     *)
(* from its stem, so also for two recordings that share an output          *)
(* directory the paths are pairwise distinct, and no recording overwrites  *)
(* an artifact of another.  Stated of the disk the batch leaves, when it   *)
(* has ended or was interrupted: nothing removes a file, so an overwrite   *)
(* during the batch shows in what is left.                                 *)
(***************************************************************************)
C30_DistinctArtifactPaths ==
    pc \in {"exit", "interrupted"} =>
    LET paths == [k \in 1..Len(attempted) |-> artifacts(attempted[k])]
    IN /\ \A j, k \in 1..Len(attempted) :
             j < k => paths[j] \cap paths[k] = {}
       /\ \A k \in 1..Len(outcomes) :
             outcomes[k].succeeded =>
                 LET dir == output_dir_of(outcomes[k].stem)
                     transcript == transcript_path(outcomes[k].stem, dir)
                     heard == transcribed_segments(outcomes[k].stem)
                 IN /\ conversation_path(outcomes[k].stem, dir) # transcript
                    /\ text_path(outcomes[k].stem, dir) # transcript
                    /\ text_path(outcomes[k].stem, dir)
                          # conversation_path(outcomes[k].stem, dir)
                    /\ { transcript,
                         conversation_path(outcomes[k].stem, dir),
                         text_path(outcomes[k].stem, dir) }
                          \subseteq DOMAIN disk
                    /\ disk[transcript].kind = "transcript"
                    /\ Len(disk[transcript].segments) = Len(heard)
                    /\ \A n \in 1..Len(heard) :
                          disk[transcript].segments[n].text = heard[n].text

\* two recordings of one output directory, both written: six files
C30_Witness ==
    /\ Len(outcomes) = 2
    /\ outcomes[1].succeeded
    /\ outcomes[2].succeeded
    /\ output_dir_of(outcomes[1].stem) = output_dir_of(outcomes[2].stem)
    /\ Cardinality(DOMAIN disk) = 6
====
